---- MODULE Spec2Model ----
(***************************************************************************)
(* Model of the benchmark dashboard script (the browser part of            *)
(* src/src/updateBenchmarkData.ts, lines 433-969): key codec, unit         *)
(* normaliser, trace builder, grouping, and the checkbox filter.           *)
(*                                                                         *)
(* JavaScript strings are sequences of one-character strings, so that      *)
(* indexing (unit[0]), concatenation ("1" + 1) and numeric conversion      *)
(* ("11" - 1) are computed as the engine computes them.  Property names    *)
(* (field names, attribute names) are only ever compared, and are TLA+     *)
(* strings.  A JSON text is represented by the ordered list of the         *)
(* members it spells: JSON.stringify writes the members of an object in    *)
(* property order and leaves out those whose value is undefined, and       *)
(* JSON.parse reads that list back.                                        *)
(***************************************************************************)
EXTENDS Integers, Sequences, FiniteSets, TLC

VARIABLES
    call,        \* harness of the pure functions: the function applied and its arguments
    ret,         \* harness: the value returned (or the error thrown) by that application
    data,        \* window.BENCHMARK_DATA: entries, schema and groupBy per suite
    rendered,    \* the suite shown in div#body, or NotRendered
    charts,      \* the div.benchmark-graphs elements of the document, in document order
    checkboxes   \* the input[type=checkbox] elements of the filter interface

vars == <<call, ret, data, rendered, charts, checkboxes>>

(***************************************************************************)
(* JavaScript values                                                       *)
(***************************************************************************)
Undefined == [t |-> "undefined"]
Null == [t |-> "null"]
Str(s) == [t |-> "string", s |-> s]
Num(n) == [t |-> "number", n |-> n]
\* an array of the elements a, and an object whose own properties are DOMAIN o
Arr(a) == [t |-> "array", a |-> a]
Obj(o) == [t |-> "object", o |-> o]

\* ToBoolean
Truthy(v) ==
    CASE v.t = "string" -> v.s # <<>>
      [] v.t = "number" -> v.n # 0
      [] v.t \in {"array", "object"} -> TRUE
      [] OTHER -> FALSE

\* typeof v
TypeOf(v) == IF v.t \in {"array", "object", "null"} THEN "object" ELSE v.t

\* the outcome of a call that can throw: a returned value or a thrown exception
Return(v) == [threw |-> FALSE, v |-> v]
Thrown(e) == [threw |-> TRUE, v |-> e]

\* the harness before a call, and the page before init() has run
NoCall == [fn |-> "none"]
NotCalled == [pc |-> "start"]
NoData == <<>>
\* what main.innerHTML = "" takes out of the document: how many of the charts
\* it removes were hidden and how many of the checkboxes were unchecked
NothingRemoved == [hidden |-> 0, unchecked |-> 0]
NotRendered == [benchSet |-> "", shown |-> FALSE, errors |-> <<>>, removed |-> NothingRemoved]

SeqsUpTo(S, n) == UNION {[1..k -> S] : k \in 0..n}

linux == <<"l", "i", "n", "u", "x">>
macos == <<"m", "a", "c", "o", "s">>

Digits == <<"0", "1", "2", "3", "4", "5", "6", "7", "8", "9">>

DigitChar(d) == Digits[d + 1]

DigitVal(c) == CHOOSE d \in 0..9 : Digits[d + 1] = c

RECURSIVE NatToString(_)
NatToString(n) ==
    IF n < 10 THEN <<DigitChar(n)>>
    ELSE Append(NatToString(n \div 10), DigitChar(n % 10))

\* Number.prototype.toString / ToString(number), for integers
NumberToString(n) == IF n < 0 THEN <<"-">> \o NatToString(-n) ELSE NatToString(n)

RECURSIVE DigitsToNat(_)
DigitsToNat(s) ==
    IF s = <<>> THEN 0
    ELSE 10 * DigitsToNat(SubSeq(s, 1, Len(s) - 1)) + DigitVal(s[Len(s)])

\* ToNumber(string), for the strings -?[0-9]* (the empty string is 0)
StringToNumber(s) ==
    IF s # <<>> /\ s[1] = "-" THEN -DigitsToNat(Tail(s)) ELSE DigitsToNat(s)

(***************************************************************************)
(* Objects whose property order matters are sequences of members <<k, v>>. *)
(***************************************************************************)
ObjHas(obj, k) == \E i \in 1..Len(obj) : obj[i][1] = k

ObjGet(obj, k) ==
    IF ObjHas(obj, k)
    THEN obj[CHOOSE i \in 1..Len(obj) : obj[i][1] = k][2]
    ELSE Undefined

\* obj[k] = v: an existing property keeps its place, a new one goes last
ObjSet(obj, k, v) ==
    IF ObjHas(obj, k)
    THEN [i \in 1..Len(obj) |-> IF obj[i][1] = k THEN <<k, v>> ELSE obj[i]]
    ELSE Append(obj, <<k, v>>)

ObjKeys(obj) == {obj[i][1] : i \in 1..Len(obj)}

\* JSON.stringify(obj): members in property order, undefined ones left out
JSONStringify(obj) == SelectSeq(obj, LAMBDA m : m[2] # Undefined)

\* JSON.parse(text)
JSONParse(text) == text

(***************************************************************************)
(* Key codec                                                               *)
(***************************************************************************)
Sentinel == <<"-">>

\* v.toString(): a string is itself, a number its decimal form; on null and
\* undefined the call throws a TypeError
ToStringOf(v) ==
    CASE v.t = "string" -> Return(v.s)
      [] v.t = "number" -> Return(NumberToString(v.n))
      [] OTHER -> Thrown("TypeError")

\* the loop of buildKey from schema[i] on, key being the object built so far
RECURSIVE buildKeyFrom(_, _, _, _)
buildKeyFrom(benchItem, schema, i, key) ==
    IF i > Len(schema) THEN Return(JSONStringify(key))
    ELSE LET s == schema[i] IN
         IF s \in DOMAIN benchItem
         THEN LET str == ToStringOf(benchItem[s]) IN
              IF str.threw THEN str
              ELSE buildKeyFrom(benchItem, schema, i + 1, ObjSet(key, s, Str(str.v)))
         ELSE buildKeyFrom(benchItem, schema, i + 1, ObjSet(key, s, Str(Sentinel)))

\* mutant: the loop starts at the second field of the schema
buildKey_SkipsFirstField(benchItem, schema) == buildKeyFrom(benchItem, schema, 2, <<>>)

buildKey(benchItem, schema) == buildKeyFrom(benchItem, schema, 1, <<>>)

RECURSIVE parseKeyFrom(_, _, _)
parseKeyFrom(key, schema, i) ==
    IF i > Len(schema) THEN key
    ELSE IF ~ObjHas(key, schema[i])
         THEN parseKeyFrom(ObjSet(key, schema[i], Str(Sentinel)), schema, i + 1)
         ELSE parseKeyFrom(key, schema, i + 1)

\* mutant: the test of hasOwnProperty is inverted, so every field the key has is
\* overwritten by the sentinel
parseKey_Inverted(keyString, schema) ==
    LET key == JSONParse(keyString) IN
    [i \in 1..Len(key) |->
        IF key[i][1] \in {schema[j] : j \in 1..Len(schema)}
        THEN <<key[i][1], Str(Sentinel)>> ELSE key[i]]

parseKey(keyString, schema) == parseKeyFrom(JSONParse(keyString), schema, 1)

(***************************************************************************)
(* Unit normaliser                                                         *)
(***************************************************************************)
\* mutant: an unknown unit is taken to be nanoseconds
getNanoseconds_UnknownIsNs(value, unit) ==
    LET unitIdentifier == IF unit = <<>> THEN "undefined" ELSE unit[1] IN
    CASE unitIdentifier \in {"U+03BC", "U+00B5", "u"} -> Return(value * 1000)
      [] unitIdentifier = "m" -> Return(value * 1000000)
      [] unitIdentifier = "s" -> Return(value * 1000000000)
      [] OTHER -> Return(value)

\* unit[0] of the empty string is undefined, which no case matches; the two
\* non-ASCII characters are written by their code points: "U+03BC" is the Greek
\* letter mu and "U+00B5" the micro sign
getNanoseconds(value, unit) ==
    LET unitIdentifier == IF unit = <<>> THEN "undefined" ELSE unit[1] IN
    CASE unitIdentifier \in {"U+03BC", "U+00B5", "u"} -> Return(value * 1000)
      [] unitIdentifier = "n" -> Return(value)
      [] unitIdentifier = "m" -> Return(value * 1000000)
      [] unitIdentifier = "s" -> Return(value * 1000000000)
      [] OTHER -> Thrown("Error")

\* Math.max(...xs) of a non-empty list (chartFilteredTraces returns before the
\* call when there is no trace, and a trace built by Object.groupBy has a point)
MathMax(xs) == CHOOSE m \in {xs[i] : i \in 1..Len(xs)} : \A i \in 1..Len(xs) : xs[i] <= m

\* d / scaleFactor, kept exact as the fraction it is
Divide(d, scaleFactor) == [num |-> d, den |-> scaleFactor]

\* mutant: the comparisons are not strict
scaleAndUnit_NotStrict(maxValue) ==
    IF maxValue >= 1000000000 THEN [scaleFactor |-> 1000000000, unit |-> "s/iter"]
    ELSE IF maxValue >= 1000000 THEN [scaleFactor |-> 1000000, unit |-> "ms/iter"]
    ELSE IF maxValue >= 1000 THEN [scaleFactor |-> 1000, unit |-> "U+03BC s/iter"]
    ELSE [scaleFactor |-> 1, unit |-> "ns/iter"]

\* the if-chain of adjustDataAndUnit
scaleAndUnit(maxValue) ==
    IF maxValue > 1000000000 THEN [scaleFactor |-> 1000000000, unit |-> "s/iter"]
    ELSE IF maxValue > 1000000 THEN [scaleFactor |-> 1000000, unit |-> "ms/iter"]
    ELSE IF maxValue > 1000 THEN [scaleFactor |-> 1000, unit |-> "U+03BC s/iter"]
    ELSE [scaleFactor |-> 1, unit |-> "ns/iter"]

\* returns the unit together with the traces as the call leaves them (it sets y in place)
adjustDataAndUnit(traces) ==
    LET maxes == [i \in 1..Len(traces) |-> MathMax(traces[i].dataNs)]
        maxValue == MathMax(maxes)
        su == scaleAndUnit(maxValue)
    IN [unit |-> su.unit,
        traces |-> [i \in 1..Len(traces) |->
                      [y |-> [j \in 1..Len(traces[i].dataNs) |->
                                Divide(traces[i].dataNs[j], su.scaleFactor)]]
                      @@ traces[i]]]

(***************************************************************************)
(* Trace builder                                                           *)
(***************************************************************************)
\* Object.groupBy(items, i => keys[i]), from item i on: the groups are the
\* properties of the result, in the order in which their keys first occur
RECURSIVE ObjectGroupByFrom(_, _, _, _)
ObjectGroupByFrom(items, keys, i, acc) ==
    IF i > Len(items) THEN acc
    ELSE LET sofar == IF ObjHas(acc, keys[i]) THEN ObjGet(acc, keys[i]) ELSE <<>> IN
         ObjectGroupByFrom(items, keys, i + 1, ObjSet(acc, keys[i], Append(sofar, items[i])))

\* mutant: the items are taken last to first
ObjectGroupBy_NewestFirst(items, keys) ==
    ObjectGroupByFrom([i \in 1..Len(items) |-> items[Len(items) + 1 - i]],
                      [i \in 1..Len(keys) |-> keys[Len(keys) + 1 - i]], 1, <<>>)

ObjectGroupBy(items, keys) == ObjectGroupByFrom(items, keys, 1, <<>>)

\* commits.map(entry => entry.benches.map(bench => {commit, date, bench})).flat()
RECURSIVE FlattenCommits(_)
FlattenCommits(commits) ==
    IF commits = <<>> THEN <<>>
    ELSE LET e == Head(commits) IN
         [j \in 1..Len(e.benches) |-> [commit |-> e.commit, date |-> e.date, bench |-> e.benches[j]]]
             \o FlattenCommits(Tail(commits))

\* the first element of a list of outcomes that threw, if any
AnyThrew(rs) == \E i \in 1..Len(rs) : rs[i].threw
FirstThrown(rs) == rs[CHOOSE i \in 1..Len(rs) : rs[i].threw /\ \A j \in 1..(i - 1) : ~rs[j].threw]

\* getNanoseconds(d.bench.value, d.bench.unit); unit[0] of undefined is a TypeError
NanosecondsOf(bench) ==
    IF "unit" \notin DOMAIN bench THEN Thrown("TypeError")
    ELSE getNanoseconds(bench.value.n, bench.unit.s)

nsPerIter == <<"n", "s", "/", "i", "t", "e", "r">>

\* new Date(t): the Date object of the time value t
NewDate(t) == [time |-> t]

\* the body of the map over Object.entries(groupedData)
traceOf(keyString, dataset, schema) ==
    LET trace(dataNs) ==
            IF AnyThrew(dataNs) THEN FirstThrown(dataNs)
            ELSE Return([metadata |-> ObjSet(parseKey(keyString, schema), "unit", Str(nsPerIter)),
                         x |-> [i \in 1..Len(dataset) |-> NewDate(dataset[i].date)],
                         dataNs |-> [i \in 1..Len(dataset) |-> dataNs[i].v],
                         dataset |-> dataset])
    IN trace([i \in 1..Len(dataset) |-> NanosecondsOf(dataset[i].bench)])

\* each step is an operator of the value the step before it produced
separateAllTraces(commits, schema) ==
    LET collect(traces) ==
            IF AnyThrew(traces) THEN FirstThrown(traces)
            ELSE Return([g \in 1..Len(traces) |-> traces[g].v])
        map(groupedData) ==
            collect([g \in 1..Len(groupedData) |->
                        traceOf(groupedData[g][1], groupedData[g][2], schema)])
        groupBy(flat, keys) ==
            IF AnyThrew(keys) THEN FirstThrown(keys)
            ELSE map(ObjectGroupBy(flat, [i \in 1..Len(flat) |-> keys[i].v]))
        keyed(flat) == groupBy(flat, [i \in 1..Len(flat) |-> buildKey(flat[i].bench, schema)])
    IN keyed(FlattenCommits(commits))

(***************************************************************************)
(* Grouping, charts and the filter interface                               *)
(***************************************************************************)
defaultSchema == <<"name", "platform", "os", "keySize", "api", "category">>
defaultGroupBy == <<"os">>

\* !lists || typeof lists !== "object" || !lists.hasOwnProperty(benchSet)
NoneOrInvalid(lists, benchSet) ==
    \/ ~Truthy(lists)
    \/ TypeOf(lists) # "object"
    \/ ~(lists.t = "object" /\ benchSet \in DOMAIN lists.o)

\* d.schema and d.groupBy are any values of the JSON document; what is returned
\* for an object with the suite as a property is that property, as it is stored
retrieveSchema(d, benchSet) ==
    IF NoneOrInvalid(d.schema, benchSet) THEN Arr(defaultSchema)
    ELSE d.schema.o[benchSet]

retrieveGroupBy(d, benchSet) ==
    IF NoneOrInvalid(d.groupBy, benchSet) THEN Arr(defaultGroupBy)
    ELSE d.groupBy.o[benchSet]

\* the lines retrieveSchema and retrieveGroupBy write with console.error
noSchema == "No or invalid schema provided"
noGroupBy == "No or invalid groupBy provided"
retrieveSchemaErrors(d, benchSet) ==
    IF NoneOrInvalid(d.schema, benchSet) THEN <<noSchema>> ELSE <<>>
retrieveGroupByErrors(d, benchSet) ==
    IF NoneOrInvalid(d.groupBy, benchSet) THEN <<noGroupBy>> ELSE <<>>

RECURSIVE traceGroupFrom(_, _, _, _)
traceGroupFrom(trace, groupBy, i, traceGroup) ==
    IF i > Len(groupBy) THEN traceGroup
    ELSE traceGroupFrom(trace, groupBy, i + 1,
                        ObjSet(traceGroup, groupBy[i], ObjGet(trace.metadata, groupBy[i])))

\* mutant: only the first field of groupBy goes into the group key
buildTraceGroupKey_FirstFieldOnly(trace, groupBy) ==
    JSONStringify(traceGroupFrom(trace, SubSeq(groupBy, 1, 1), 1, <<>>))

buildTraceGroupKey(trace, groupBy) == JSONStringify(traceGroupFrom(trace, groupBy, 1, <<>>))

\* [...new Set(xs)]: the distinct elements in the order of their first occurrence
RECURSIVE Unique(_)
Unique(xs) ==
    IF xs = <<>> THEN <<>>
    ELSE LET init == Unique(SubSeq(xs, 1, Len(xs) - 1))
             last == xs[Len(xs)]
         IN IF \E i \in 1..Len(init) : init[i] = last THEN init ELSE Append(init, last)

RECURSIVE uniqueValuesFrom(_, _, _, _)
uniqueValuesFrom(groupKeys, groupBy, i, uniqueValues) ==
    IF i > Len(groupBy) THEN uniqueValues
    ELSE uniqueValuesFrom(groupKeys, groupBy, i + 1,
            ObjSet(uniqueValues, groupBy[i],
                   Unique([g \in 1..Len(groupKeys) |-> ObjGet(groupKeys[g], groupBy[i])])))

getUniqueValuesForKey(groupKeys, groupBy) == uniqueValuesFrom(groupKeys, groupBy, 1, <<>>)

RECURSIVE Concat(_)
Concat(seqs) == IF seqs = <<>> THEN <<>> ELSE Head(seqs) \o Concat(Tail(seqs))

\* the checkboxes createFilterInterface makes, in document order: one per
\* (key, value), its key and value attributes set, checked
createFilterInterface(groupKeys, groupBy) ==
    LET uniqueValues == getUniqueValuesForKey(groupKeys, groupBy) IN
    Concat([k \in 1..Len(uniqueValues) |->
               [v \in 1..Len(uniqueValues[k][2]) |->
                   [key |-> uniqueValues[k][1],
                    value |-> uniqueValues[k][2][v].s,
                    checked |-> TRUE]]])

(***************************************************************************)
(* Legend names and tooltips                                               *)
(***************************************************************************)
\* strs.join(sep)
RECURSIVE Join(_, _)
Join(strs, sep) ==
    IF strs = <<>> THEN <<>>
    ELSE IF Len(strs) = 1 THEN strs[1]
    ELSE strs[1] \o sep \o Join(Tail(strs), sep)

\* `${v}` in a template literal
TemplateText(v) ==
    CASE v.t = "string" -> v.s
      [] v.t = "number" -> NumberToString(v.n)
      [] v.t = "null" -> <<"n", "u", "l", "l">>
      [] OTHER -> <<"u", "n", "d", "e", "f", "i", "n", "e", "d">>

getLegendName(trace, groupBy, schema) ==
    LET orderedEntries == [i \in 1..Len(schema) |-> <<schema[i], ObjGet(trace.metadata, schema[i])>>]
        kept == SelectSeq(orderedEntries,
                    LAMBDA e : /\ ~\E g \in 1..Len(groupBy) : groupBy[g] = e[1]
                               /\ e[1] # "unit"
                               /\ e[2] # Undefined)
    IN Join([i \in 1..Len(kept) |-> TemplateText(kept[i][2])], <<" ">>)

ttBold == <<"<", "b", ">">>
ttValue == <<"<", "/", "b", ">", "<", "b", "r", ">", "v", "a", "l", "u", "e", ":", " ">>
ttCommitId == <<"<", "b", "r", ">", "c", "o", "m", "m", "i", "t", " ", "i", "d", ":", " ">>
ttCommitName == <<"<", "b", "r", ">", "c", "o", "m", "m", "i", "t", " ", "n", "a", "m", "e", ":", " ">>
ttCommitUrl == <<"<", "b", "r", ">", "c", "o", "m", "m", "i", "t", " ", "u", "r", "l", ":", " ">>

getObservationTooltipText(name, observation) ==
    LET value == observation.bench.value
        unit == IF "unit" \in DOMAIN observation.bench THEN observation.bench.unit ELSE Undefined
        range == IF "range" \in DOMAIN observation.bench THEN observation.bench.range ELSE Undefined
        rangeText == IF Truthy(range) THEN TemplateText(range) ELSE <<>>
    IN ttBold \o name \o ttValue \o TemplateText(value) \o <<" ">> \o TemplateText(unit)
           \o <<" ">> \o rangeText
           \o ttCommitId \o observation.commit.id
           \o ttCommitName \o observation.commit.message
           \o ttCommitUrl \o observation.commit.url

\* the trace with its name and text set
addLegendNameAndTooltip(trace, groupBy, schema) ==
    LET named(name) ==
            [name |-> name,
             text |-> [i \in 1..Len(trace.dataset) |->
                         getObservationTooltipText(name, trace.dataset[i])]]
                @@ trace
    IN named(getLegendName(trace, groupBy, schema))

\* elem.setAttribute(key, value) for every member of the group key
RECURSIVE addAttributesFrom(_, _, _)
addAttributesFrom(attrs, groupKey, i) ==
    IF i > Len(groupKey) THEN attrs
    ELSE addAttributesFrom((groupKey[i][1] :> groupKey[i][2].s) @@ attrs, groupKey, i + 1)

addAttributesToChartElement(elem, groupKey) ==
    [elem EXCEPT !.attrs = addAttributesFrom(elem.attrs, groupKey, 1)]

\* the element made for a group, with what is handed to Plotly.newPlot
chartFilteredTraces(filteredTraces) ==
    LET chart(adjusted) ==
            [attrs |-> [a \in {} |-> <<>>],
             display |-> "",
             unit |-> adjusted.unit,
             traces |-> adjusted.traces]
    IN chart(adjustDataAndUnit(filteredTraces))

\* for (const s of list): a list that is not iterable makes it a TypeError.  The
\* loops over the schema (buildKey) and over groupBy (buildTraceGroupKey) run
\* once per bench and once per trace, and every history has a bench.
IsIterable(list) == list.t = "array"

\* what renderAllCharts puts into div#body, or the exception it ends with (the
\* titles and the layout, which only Plotly reads, are left out)
renderAllCharts(d, benchSet) ==
    LET schema == retrieveSchema(d, benchSet).a
        groupBy == retrieveGroupBy(d, benchSet).a
        body(groupedData, groupKeys) ==
            Return([checkboxes |-> createFilterInterface(groupKeys, groupBy),
                    charts |-> [g \in 1..Len(groupedData) |->
                                  addAttributesToChartElement(
                                      chartFilteredTraces(
                                          [i \in 1..Len(groupedData[g][2]) |->
                                              addLegendNameAndTooltip(groupedData[g][2][i],
                                                                      groupBy, schema)]),
                                      groupKeys[g])]])
        grouped(groupedData) ==
            body(groupedData,
                 [g \in 1..Len(groupedData) |-> parseKey(groupedData[g][1], groupBy)])
        render(traces) ==
            IF traces.threw THEN traces
            ELSE IF ~IsIterable(retrieveGroupBy(d, benchSet)) THEN Thrown("TypeError")
            ELSE grouped(ObjectGroupBy(traces.v,
                             [i \in 1..Len(traces.v) |->
                                 buildTraceGroupKey(traces.v[i], groupBy)]))
    IN IF ~IsIterable(retrieveSchema(d, benchSet)) THEN Thrown("TypeError")
       ELSE render(separateAllTraces(ObjGet(d.entries, benchSet), schema))

\* the lines the call writes with console.error: retrieveGroupBy is reached
\* when separateAllTraces has returned
renderAllChartsErrors(d, benchSet) ==
    retrieveSchemaErrors(d, benchSet)
        \o (IF ~IsIterable(retrieveSchema(d, benchSet)) THEN <<>>
            ELSE IF separateAllTraces(ObjGet(d.entries, benchSet),
                                      retrieveSchema(d, benchSet).a).threw THEN <<>>
            ELSE retrieveGroupByErrors(d, benchSet))

(***************************************************************************)
(* The checkbox filter                                                     *)
(***************************************************************************)
\* elem.getAttribute(name): the string, or null when there is no such attribute
GetAttribute(elem, name) ==
    IF name \in DOMAIN elem.attrs THEN Str(elem.attrs[name]) ELSE Null

\* v += 1: a string operand makes it a concatenation
PlusOne(v) ==
    IF v.t = "string" THEN Str(v.s \o NumberToString(1)) ELSE Num(v.n + 1)

\* v -= 1: the operand is converted to a number
MinusOne(v) ==
    IF v.t = "string" THEN Num(StringToNumber(v.s) - 1) ELSE Num(v.n - 1)

\* setAttribute's conversion of its argument to a string
AttributeText(v) == IF v.t = "string" THEN v.s ELSE NumberToString(v.n)

\* mutant: re-checking a box shows the chart whatever the count
updateHiddenBy_AlwaysReveals(chart, hide) ==
    LET hiddenByAttribute == GetAttribute(chart, "hidden-by")
        hiddenBy == IF Truthy(hiddenByAttribute) THEN hiddenByAttribute ELSE Num(0)
    IN IF hide
       THEN [chart EXCEPT !.display = "none",
                          !.attrs = ("hidden-by" :> AttributeText(PlusOne(hiddenBy))) @@ @]
       ELSE LET lowered == IF Truthy(hiddenBy) THEN MinusOne(hiddenBy) ELSE Num(0) IN
            [chart EXCEPT !.display = "",
                          !.attrs = ("hidden-by" :> AttributeText(lowered)) @@ @]

\* mutant: unchecking a box counts but does not hide the chart
updateHiddenBy_HideForgotten(chart, hide) ==
    LET hiddenByAttribute == GetAttribute(chart, "hidden-by")
        hiddenBy == IF Truthy(hiddenByAttribute) THEN hiddenByAttribute ELSE Num(0)
    IN IF hide
       THEN [chart EXCEPT !.attrs = ("hidden-by" :> AttributeText(PlusOne(hiddenBy))) @@ @]
       ELSE LET lowered == IF Truthy(hiddenBy) THEN MinusOne(hiddenBy) ELSE Num(0) IN
            [chart EXCEPT !.display = IF lowered.n = 0 THEN "" ELSE @,
                          !.attrs = ("hidden-by" :> AttributeText(lowered)) @@ @]

\* the body of filteredCharts.forEach in setChartHiddenStatus
updateHiddenBy(chart, hide) ==
    LET hiddenByAttribute == GetAttribute(chart, "hidden-by")
        hiddenBy == IF Truthy(hiddenByAttribute) THEN hiddenByAttribute ELSE Num(0)
    IN IF hide
       THEN [chart EXCEPT !.display = "none",
                          !.attrs = ("hidden-by" :> AttributeText(PlusOne(hiddenBy))) @@ @]
       ELSE LET lowered == IF Truthy(hiddenBy) THEN MinusOne(hiddenBy) ELSE Num(0) IN
            [chart EXCEPT !.display = IF lowered.n = 0 THEN "" ELSE @,
                          !.attrs = ("hidden-by" :> AttributeText(lowered)) @@ @]

\* the charts of the document after setChartHiddenStatus(hide, key, value)
setChartHiddenStatus(cs, hide, key, value) ==
    [i \in 1..Len(cs) |->
        IF GetAttribute(cs[i], key) = Str(value) THEN updateHiddenBy(cs[i], hide) ELSE cs[i]]

(***************************************************************************)
(* The dashboard page                                                      *)
(***************************************************************************)

MaxAttrLen == 3
MaxEntries == 2
MaxBenches == 1

us == <<"u", "s">>
ns == <<"n", "s">>
ks == <<"k", "s">>

Commit(n) == [id |-> <<"c", DigitChar(n)>>, message |-> <<"m", DigitChar(n)>>,
              url |-> <<"u", DigitChar(n)>>]

Bench(name, os, keySize, value, unit) ==
    [name |-> Str(name), os |-> Str(os), keySize |-> Num(keySize),
     value |-> Num(value), unit |-> Str(unit)]

\* the document of the page under Spec: four suites, the first with two groupBy
\* fields, the third with an observation whose unit is unknown, the last with
\* neither schema nor groupBy recorded
DashboardData ==
    [entries |->
        << <<"sign",
             << [commit |-> Commit(1), date |-> 1,
                 benches |-> << Bench(<<"a">>, linux, 512, 1500, ns),
                                Bench(<<"a">>, linux, 1024, 3, us) >>],
                [commit |-> Commit(2), date |-> 2,
                 benches |-> << Bench(<<"a">>, linux, 512, 1400, ns),
                                Bench(<<"a">>, macos, 512, 900, ns) >>] >> >>,
           <<"hash",
             << [commit |-> Commit(1), date |-> 1,
                 benches |-> << Bench(<<"h">>, linux, 512, 2, us),
                                Bench(<<"h">>, macos, 512, 70, ns) >>] >> >>,
           <<"kem",
             << [commit |-> Commit(1), date |-> 1,
                 benches |-> << Bench(<<"k">>, linux, 512, 2, us),
                                Bench(<<"k">>, macos, 512, 1, ks) >>] >> >>,
           <<"rng",
             << [commit |-> Commit(2), date |-> 2,
                 benches |-> << Bench(<<"r">>, linux, 512, 2, us) >>] >> >> >>,
     schema |-> Obj([sign |-> Arr(<<"name", "os", "keySize">>),
                     hash |-> Arr(<<"name", "os">>),
                     kem |-> Arr(<<"name", "os">>)]),
     groupBy |-> Obj([sign |-> Arr(<<"os", "keySize">>),
                      hash |-> Arr(<<"os">>),
                      kem |-> Arr(<<"os">>)])]

\* the documents of SpecRender: one suite, a history of 1..MaxEntries entries of
\* 1..MaxBenches benches each, with a schema and a groupBy recorded or not
RenderBenches ==
    { Bench(<<"a">>, linux, 512, 500, ns),
      Bench(<<"a">>, macos, 512, 2, us),
      Bench(<<"b">>, linux, 512, 700, ns),
      Bench(<<"a">>, macos, 512, 1, ks),
      [name |-> Str(<<"b">>), value |-> Num(3), unit |-> Str(us),
       range |-> Str(<<"+", "-", "1">>)] }

BenchLists(maxBenches) == SeqsUpTo(RenderBenches, maxBenches) \ {<<>>}

\* the history whose entry i, of commit i and date i, holds the benches bl[i]
History(bl) == [i \in 1..Len(bl) |-> [commit |-> Commit(i), date |-> i, benches |-> bl[i]]]

\* schema and groupBy of the document: lists recorded for suite "s"; nothing
\* recorded at all; null recorded for the suite in place of a list; a value
\* that is no object, and an object that knows of another suite only
SchemaAndGroupBy ==
    { <<Obj([s |-> Arr(<<"name", "os">>)]), Obj([s |-> Arr(<<"os">>)])>>,
      <<Obj([s |-> Arr(<<"name", "os">>)]), Obj([s |-> Arr(<<"os", "name">>)])>>,
      <<Undefined, Null>>,
      <<Obj([s |-> Null]), Obj([s |-> Arr(<<"os">>)])>>,
      <<Obj([s |-> Arr(<<"name", "os">>)]), Obj([s |-> Null])>>,
      <<Str(<<"x">>), Obj([r |-> Arr(<<"name">>)])>> }

RenderDoc(history, sg) == [entries |-> << <<"s", history>> >>, schema |-> sg[1], groupBy |-> sg[2]]

\* main.innerHTML = "": the charts and the checkboxes of div#body leave the
\* document
Removed(cs, boxes) ==
    [hidden |-> Cardinality({i \in 1..Len(cs) : cs[i].display = "none"}),
     unchecked |-> Cardinality({i \in 1..Len(boxes) : ~boxes[i].checked})]

\* mutant: the body is not emptied, the new suite is appended to the old one
RenderInto_BodyKept(benchSet) ==
    LET page(r) ==
            IF r.threw
            THEN /\ rendered' = [benchSet |-> benchSet, shown |-> FALSE,
                               errors |-> renderAllChartsErrors(data, benchSet),
                               removed |-> Removed(charts, checkboxes)]
                 /\ charts' = charts
                 /\ checkboxes' = checkboxes
            ELSE /\ rendered' = [benchSet |-> benchSet, shown |-> TRUE,
                               errors |-> renderAllChartsErrors(data, benchSet),
                               removed |-> Removed(charts, checkboxes)]
                 /\ charts' = charts \o r.v.charts
                 /\ checkboxes' = checkboxes \o r.v.checkboxes
    IN page(renderAllCharts(data, benchSet))

\* div#body after renderAllCharts(benchSet): when the call throws, the body has
\* been emptied and nothing has been appended to it
RenderInto(benchSet) ==
    LET page(r) ==
            IF r.threw
            THEN /\ rendered' = [benchSet |-> benchSet, shown |-> FALSE,
                               errors |-> renderAllChartsErrors(data, benchSet),
                               removed |-> Removed(charts, checkboxes)]
                 /\ charts' = <<>>
                 /\ checkboxes' = <<>>
            ELSE /\ rendered' = [benchSet |-> benchSet, shown |-> TRUE,
                               errors |-> renderAllChartsErrors(data, benchSet),
                               removed |-> Removed(charts, checkboxes)]
                 /\ charts' = r.v.charts
                 /\ checkboxes' = r.v.checkboxes
    IN page(renderAllCharts(data, benchSet))

\* init(): rerenderAll() renders the first suite of the document
PageInit ==
    /\ rendered = NotRendered
    /\ data # NoData
    /\ RenderInto(data.entries[1][1])
    /\ UNCHANGED <<call, ret, data>>

\* a change event of the suite dropdown
DropdownChange(benchSet) ==
    /\ rendered # NotRendered
    /\ benchSet # rendered.benchSet
    /\ RenderInto(benchSet)
    /\ UNCHANGED <<call, ret, data>>

AttrLen(chart) == IF "hidden-by" \in DOMAIN chart.attrs THEN Len(chart.attrs["hidden-by"]) ELSE 0

\* a change event of checkbox i: the box has changed state when the listener
\* runs.  Unchecking is cut off where a hidden-by attribute would grow beyond
\* MaxAttrLen characters.
CheckboxChange(i) ==
    LET box == checkboxes[i]
        nowChecked == ~box.checked
    IN /\ nowChecked \/ \A c \in 1..Len(charts) :
                            GetAttribute(charts[c], box.key) = Str(box.value)
                                => AttrLen(charts[c]) < MaxAttrLen
       /\ checkboxes' = [checkboxes EXCEPT ![i].checked = nowChecked]
       /\ charts' = setChartHiddenStatus(charts, ~nowChecked, box.key, box.value)
       /\ UNCHANGED <<call, ret, data, rendered>>

Init ==
    /\ call = NoCall
    /\ ret = NotCalled
    /\ data = DashboardData
    /\ rendered = NotRendered
    /\ charts = <<>>
    /\ checkboxes = <<>>

Next ==
    \/ PageInit
    \/ \E i \in 1..Len(checkboxes) : CheckboxChange(i)
    \/ \E benchSet \in ObjKeys(data.entries) : DropdownChange(benchSet)

Spec == Init /\ [][Next]_vars

InitRender ==
    /\ call = NoCall
    /\ ret = NotCalled
    /\ \E k \in 1..MaxEntries : \E bl \in [1..k -> BenchLists(MaxBenches)] :
          \E sg \in SchemaAndGroupBy : data = RenderDoc(History(bl), sg)
    /\ rendered = NotRendered
    /\ charts = <<>>
    /\ checkboxes = <<>>

NextRender == PageInit

SpecRender == InitRender /\ [][NextRender]_vars

(***************************************************************************)
(* The data file updater                                                   *)
(***************************************************************************)
MaxCalls == 3

\* the latest entry of suites whose commit id is not id, or null
RECURSIVE prevBenchFrom(_, _, _)
prevBenchFrom(suites, id, i) ==
    IF i = 0 THEN Null
    ELSE IF suites[i].commit.id # id THEN Obj(suites[i])
    ELSE prevBenchFrom(suites, id, i - 1)

\* suites.splice(0, suites.length - maxItems) when maxItems is a number below
\* the length
truncate(suites, maxItems) ==
    IF maxItems # Null /\ Len(suites) > maxItems.n
    THEN SubSeq(suites, Len(suites) - maxItems.n + 1, Len(suites))
    ELSE suites

\* data.lists[benchName] = list, data.lists being made an empty object first
\* when it is falsy
setList(lists, benchName, list) ==
    Obj((benchName :> Arr(list)) @@ (IF Truthy(lists) THEN lists.o ELSE <<>>))

\* mutant: the suite is started afresh by every call
addBenchmarkToDataJson_StartsAfresh(groupBy, schema, benchName, bench, d, maxItems, now) ==
    [data |-> [lastUpdate |-> now,
               groupBy |-> setList(d.groupBy, benchName, groupBy),
               schema |-> setList(d.schema, benchName, schema),
               entries |-> ObjSet(d.entries, benchName, <<bench>>)],
     prevBench |-> Null]

\* the document as the call leaves it and the value it returns; now is what
\* Date.now() gives
addBenchmarkToDataJson(groupBy, schema, benchName, bench, d, maxItems, now) ==
    [data |-> [lastUpdate |-> now,
               groupBy |-> setList(d.groupBy, benchName, groupBy),
               schema |-> setList(d.schema, benchName, schema),
               entries |->
                   IF ~ObjHas(d.entries, benchName)
                   THEN ObjSet(d.entries, benchName, <<bench>>)
                   ELSE ObjSet(d.entries, benchName,
                               truncate(Append(ObjGet(d.entries, benchName), bench), maxItems))],
     prevBench |->
         IF ~ObjHas(d.entries, benchName) THEN Null
         ELSE LET suites == ObjGet(d.entries, benchName) IN
              prevBenchFrom(suites, bench.commit.id, Len(suites))]

\* a data file with no suite yet and neither groupBy nor schema
EmptyData == [lastUpdate |-> 0, groupBy |-> Undefined, schema |-> Undefined, entries |-> <<>>]

SuiteNames == {"s", "r"}
UpdateLists == { <<<<"os">>, <<"name", "os">>>>, <<<<"os", "keySize">>, <<"name", "os", "keySize">>>> }

\* one run of the updater script: the arguments are parsed, the bench is
\* loaded, and addBenchmarkToDataJson(groupBy, schema, name, bench, data, null)
\* makes the document that is written out.  call.log keeps the arguments of
\* the runs so far.
RunUpdater(benchName, lists, commitId) ==
    /\ call.fn = "addBenchmarkToDataJson"
    /\ Len(call.log) < MaxCalls
    /\ LET now == Len(call.log) + 1
           bench == [commit |-> Commit(commitId), date |-> now,
                     benches |-> <<Bench(<<"a">>, linux, 512, 500, ns)>>]
           r == addBenchmarkToDataJson(lists[1], lists[2], benchName, bench, data, Null, now)
       IN /\ data' = r.data
          /\ ret' = [pc |-> "done", prevBench |-> r.prevBench]
          /\ call' = [call EXCEPT !.log = Append(@, [groupBy |-> lists[1], schema |-> lists[2],
                                                     benchName |-> benchName, bench |-> bench])]
    /\ UNCHANGED <<rendered, charts, checkboxes>>

InitData ==
    /\ call = [fn |-> "addBenchmarkToDataJson", log |-> <<>>]
    /\ ret = NotCalled
    /\ data = EmptyData
    /\ rendered = NotRendered
    /\ charts = <<>>
    /\ checkboxes = <<>>

NextData == \E benchName \in SuiteNames, lists \in UpdateLists, commitId \in 1..2 :
                RunUpdater(benchName, lists, commitId)

SpecData == InitData /\ [][NextData]_vars

(***************************************************************************)
(* The diff report (report_gen_diff.ts)                                    *)
(***************************************************************************)
\* bench[key]: a bench is a function from its fields to their values
Field(bench, key) == IF key \in DOMAIN bench THEN bench[key] ELSE Undefined

\* v ?? d
Nullish(v) == v.t \in {"null", "undefined"}
NullishOr(v, d) == IF Nullish(v) THEN d ELSE v

\* the element of Array.prototype.join for v: nothing for null and undefined
JoinText(v) == IF Nullish(v) THEN <<>> ELSE TemplateText(v)

\* mutant: the key is made of the first field only
generateCompositeKey_FirstFieldOnly(bench, keys) ==
    IF keys = <<>> THEN <<>> ELSE JoinText(NullishOr(Field(bench, keys[1]), Str(<<>>)))

generateCompositeKey(bench, keys) ==
    Join([i \in 1..Len(keys) |-> JoinText(NullishOr(Field(bench, keys[i]), Str(<<>>)))], <<"|">>)

\* the backward loop of main from history[i] on
RECURSIVE findCommitsFrom(_, _, _, _)
findCommitsFrom(history, i, currentCommitId, baselineCommitId) ==
    IF i = 0 THEN [currentCommitId |-> currentCommitId, baselineCommitId |-> baselineCommitId]
    ELSE IF ~Truthy(currentCommitId)
         THEN findCommitsFrom(history, i - 1, Str(history[i].commit.id), baselineCommitId)
    ELSE IF Str(history[i].commit.id) # currentCommitId
         THEN [currentCommitId |-> currentCommitId, baselineCommitId |-> Str(history[i].commit.id)]
    ELSE findCommitsFrom(history, i - 1, currentCommitId, baselineCommitId)

findFirstEntryForCommit(history, commitId) ==
    history[CHOOSE i \in 1..Len(history) :
                /\ history[i].commit.id = commitId
                /\ \A j \in 1..(i - 1) : history[j].commit.id # commitId]

\* the first entry of the commit with the benches of all its entries
aggregatedEntry(history, commitId) ==
    [findFirstEntryForCommit(history, commitId) EXCEPT
        !.benches = Concat([i \in 1..Len(history) |->
                              IF history[i].commit.id = commitId
                              THEN history[i].benches ELSE <<>>])]

\* createBenchMap: a Map keeps a key at the place of its first insertion and
\* the value of its last
RECURSIVE createBenchMapFrom(_, _, _, _)
createBenchMapFrom(benches, keyFields, i, map) ==
    IF i > Len(benches) THEN map
    ELSE createBenchMapFrom(benches, keyFields, i + 1,
                            ObjSet(map, generateCompositeKey(benches[i], keyFields), benches[i]))

createBenchMap(entry, keyFields) == createBenchMapFrom(entry.benches, keyFields, 1, <<>>)

changed == Str(<<"changed">>)
new == Str(<<"new">>)
removed == Str(<<"removed">>)

\* the body of the loop over allKeys
combinedResult(key, baselineMap, currentMap) ==
    LET representativeBench ==
            IF ObjHas(currentMap, key) THEN ObjGet(currentMap, key) ELSE ObjGet(baselineMap, key)
        status ==
            IF ObjHas(currentMap, key)
            THEN (IF ObjHas(baselineMap, key) THEN changed ELSE new)
            ELSE removed
    IN [baselineValue |-> IF ObjHas(baselineMap, key)
                          THEN Field(ObjGet(baselineMap, key), "value") ELSE Undefined,
        currentValue |-> IF ObjHas(currentMap, key)
                         THEN Field(ObjGet(currentMap, key), "value") ELSE Undefined,
        status |-> status] @@ representativeBench

\* mutant: a key of the baseline alone gets no result
compareBenches_CurrentOnly(baselineEntry, currentEntry, schemaKeys) ==
    LET keyFields == SelectSeq(schemaKeys, LAMBDA k : k \notin {"value", "unit", "range"})
        results(baselineMap, currentMap) ==
            [i \in 1..Len(currentMap) |-> combinedResult(currentMap[i][1], baselineMap, currentMap)]
    IN results(createBenchMap(baselineEntry, keyFields), createBenchMap(currentEntry, keyFields))

compareBenches(baselineEntry, currentEntry, schemaKeys) ==
    LET keyFields == SelectSeq(schemaKeys, LAMBDA k : k \notin {"value", "unit", "range"})
        combine(allKeys, baselineMap, currentMap) ==
            [i \in 1..Len(allKeys) |-> combinedResult(allKeys[i], baselineMap, currentMap)]
        results(baselineMap, currentMap) ==
            combine(Unique([i \in 1..Len(baselineMap) |-> baselineMap[i][1]]
                               \o [i \in 1..Len(currentMap) |-> currentMap[i][1]]),
                    baselineMap, currentMap)
    IN results(createBenchMap(baselineEntry, keyFields), createBenchMap(currentEntry, keyFields))

\* the loop of groupResults from results[i] on
RECURSIVE groupResultsFrom(_, _, _, _)
groupResultsFrom(results, groupByKeys, i, groupedResults) ==
    IF i > Len(results) THEN groupedResults
    ELSE LET add(groupKey) ==
                 ObjSet(groupedResults, groupKey,
                        Append(IF ObjHas(groupedResults, groupKey)
                               THEN ObjGet(groupedResults, groupKey) ELSE <<>>,
                               results[i]))
         IN groupResultsFrom(results, groupByKeys, i + 1,
                             add(generateCompositeKey(results[i], groupByKeys)))

groupResults(results, groupByKeys) ==
    IF Len(groupByKeys) = 0 THEN << <<<<"a", "l", "l">>, results>> >>
    ELSE groupResultsFrom(results, groupByKeys, 1, <<>>)

\* a number that calculateImprovement can return: Infinity, or the quotient
\* num / den of two integers, den not 0
Infinity == [kind |-> "Infinity", num |-> 1, den |-> 1]
Quotient(num, den) == [kind |-> "finite", num |-> num, den |-> den]

\* r > k, for an integer k
GreaterThan(r, k) ==
    \/ r.kind = "Infinity"
    \/ r.kind = "finite" /\ r.den > 0 /\ r.num > k * r.den
    \/ r.kind = "finite" /\ r.den < 0 /\ r.num < k * r.den

\* r < k, for an integer k
LessThan(r, k) ==
    \/ r.kind = "finite" /\ r.den > 0 /\ r.num < k * r.den
    \/ r.kind = "finite" /\ r.den < 0 /\ r.num > k * r.den

\* mutant: the sign is not turned when smaller is better
calculateImprovement_SignKept(oldValue, newValue, biggerIsBetter) ==
    IF oldValue = 0 THEN (IF newValue > 0 THEN Infinity ELSE Quotient(0, 1))
    ELSE Quotient((newValue - oldValue) * 100, oldValue)

calculateImprovement(oldValue, newValue, biggerIsBetter) ==
    IF oldValue = 0 THEN (IF newValue > 0 THEN Infinity ELSE Quotient(0, 1))
    ELSE IF biggerIsBetter THEN Quotient((newValue - oldValue) * 100, oldValue)
    ELSE Quotient(-((newValue - oldValue) * 100), oldValue)

notAvailable == <<"N", "/", "A">>

\* the parts of the text of formatImprovement: the sign, the number that
\* toFixed(2) prints, and the emoji, written by its code point
formatImprovement(improvement) ==
    IF improvement.kind = "Infinity" THEN [text |-> notAvailable]
    ELSE [sign |-> IF GreaterThan(improvement, 0) THEN "+" ELSE "",
          improvement |-> improvement,
          emoji |-> IF GreaterThan(improvement, 2) THEN "U+2705"
                    ELSE IF LessThan(improvement, -2) THEN "U+274C" ELSE "U+2796"]

\* n.toLocaleString() for an integer, in the en-US locale: the digits in groups
\* of three
RECURSIVE GroupDigits(_)
GroupDigits(digits) ==
    IF Len(digits) <= 3 THEN digits
    ELSE GroupDigits(SubSeq(digits, 1, Len(digits) - 3)) \o <<",">>
             \o SubSeq(digits, Len(digits) - 2, Len(digits))

ToLocaleString(n) == IF n < 0 THEN <<"-">> \o GroupDigits(NatToString(-n)) ELSE GroupDigits(NatToString(n))

\* str.split("/")[0]
RECURSIVE BeforeSlash(_)
BeforeSlash(str) ==
    IF str = <<>> \/ Head(str) = "/" THEN <<>> ELSE <<Head(str)>> \o BeforeSlash(Tail(str))

\* the columns of the table: 'name' first when the schema has it
tableColumnsOf(schemaKeys) ==
    IF \E i \in 2..Len(schemaKeys) : schemaKeys[i] = "name" /\ \A j \in 1..(i - 1) : schemaKeys[j] # "name"
    THEN LET nameIndex == CHOOSE i \in 2..Len(schemaKeys) :
                              schemaKeys[i] = "name" /\ \A j \in 1..(i - 1) : schemaKeys[j] # "name"
         IN <<"name">> \o SubSeq(schemaKeys, 1, nameIndex - 1)
                \o SubSeq(schemaKeys, nameIndex + 1, Len(schemaKeys))
    ELSE schemaKeys

\* the row of the table for res: the cells of the columns, then Baseline,
\* Current and Change
rowOf(res, tableColumns, currentEntry) ==
    LET unit == IF Nullish(Field(res, "unit")) THEN <<>> ELSE BeforeSlash(res.unit.s)
        valueText(v) == IF Truthy(v) THEN ToLocaleString(v.n) \o <<" ">> \o unit ELSE notAvailable
    IN [cells |-> [c \in 1..Len(tableColumns) |->
                     TemplateText(NullishOr(Field(res, tableColumns[c]), Str(notAvailable)))],
        baseline |-> valueText(res.baselineValue),
        current |-> valueText(res.currentValue),
        change |->
            IF res.status = changed /\ Truthy(res.baselineValue) /\ Truthy(res.currentValue)
            THEN formatImprovement(calculateImprovement(res.baselineValue.n, res.currentValue.n,
                                                        currentEntry.bigger_is_better))
            ELSE IF res.status = new THEN [text |-> <<"N", "e", "w">>]
            ELSE IF res.status = removed THEN [text |-> <<"R", "e", "m", "o", "v", "e", "d">>]
            ELSE [text |-> notAvailable]]

\* the report, group by group: the properties of the heading (none without
\* groupBy keys) and the rows of the table; the table header and the Markdown
\* punctuation are left out
generateMarkdown(currentEntry, groupedResults, schemaKeys, groupByKeys) ==
    [g \in 1..Len(groupedResults) |->
        [groupProps |-> [k \in 1..Len(groupByKeys) |->
                           <<groupByKeys[k],
                             TemplateText(Field(groupedResults[g][2][1], groupByKeys[k]))>>],
         rows |-> [r \in 1..Len(groupedResults[g][2]) |->
                     rowOf(groupedResults[g][2][r], tableColumnsOf(schemaKeys), currentEntry)]]]

\* what main prints: one of the two notices, or the report; with the report,
\* the two aggregated entries and the results it was made from
reportGenDiff(name, schemaKeys, groupByKeys, d) ==
    LET print(baselineEntry, currentEntry, combinedResults, groupedResults) ==
            [notice |-> "none",
             baselineEntry |-> baselineEntry,
             currentEntry |-> currentEntry,
             combinedResults |-> combinedResults,
             groupedResults |-> groupedResults,
             md |-> generateMarkdown(currentEntry, groupedResults, schemaKeys, groupByKeys)]
        group(baselineEntry, currentEntry, combinedResults) ==
            print(baselineEntry, currentEntry, combinedResults,
                  groupResults(combinedResults, groupByKeys))
        compare(baselineEntry, currentEntry) ==
            group(baselineEntry, currentEntry,
                  compareBenches(baselineEntry, currentEntry, schemaKeys))
        aggregate(history, commits) ==
            IF ~Truthy(commits.baselineCommitId)
            THEN [notice |-> "At least two different commits with benchmark data are required."]
            ELSE compare(aggregatedEntry(history, commits.baselineCommitId.s),
                         aggregatedEntry(history, commits.currentCommitId.s))
        find(history) == aggregate(history, findCommitsFrom(history, Len(history), Null, Null))
    IN IF ~ObjHas(d.entries, name) THEN [notice |-> "At least two benchmark runs are required."]
       ELSE IF Len(ObjGet(d.entries, name)) < 2
            THEN [notice |-> "At least two benchmark runs are required."]
       ELSE find(ObjGet(d.entries, name))

MaxHistory == 3

ReportCommit(id) == [id |-> id, url |-> <<"u">> \o id, message |-> <<"m">> \o id]

ReportBench(name, os, value, unit) ==
    [name |-> Str(name), os |-> Str(os), value |-> Num(value), unit |-> Str(unit)]

\* commit ids as JSON gives them: strings, the empty one among them
ReportCommitIds == {<<>>, <<"a">>, <<"b">>}

\* the benches of a run: bench x is reported in ns by two runs and in us by a
\* third
ReportBenchLists ==
    { <<ReportBench(<<"x">>, linux, 1500, ns)>>,
      <<ReportBench(<<"x">>, linux, 1200, ns), ReportBench(<<"y">>, linux, 3, us)>>,
      <<ReportBench(<<"x">>, linux, 2, us)>> }

\* the history whose entry i has commit ids[i] and benches bl[i]
ReportHistory(ids, bl) ==
    [i \in 1..Len(ids) |-> [commit |-> ReportCommit(ids[i]), date |-> i,
                            bigger_is_better |-> FALSE, benches |-> bl[i]]]

\* one run of report_gen_diff.ts on the document of call.data
RunDiffReport ==
    /\ call.fn = "report_gen_diff"
    /\ ret.pc = "start"
    /\ ret' = [pc |-> "done",
               out |-> reportGenDiff(call.name, call.schemaKeys,
                                     SelectSeq(call.groupByKeys, LAMBDA k : k # ""),
                                     call.data)]
    /\ UNCHANGED <<call, data, rendered, charts, checkboxes>>

DiffCall(entries) ==
    [fn |-> "report_gen_diff", name |-> "s", schemaKeys |-> <<"os", "name">>,
     groupByKeys |-> <<"os">>, data |-> [entries |-> entries]]

\* the suite is absent from the document, or has a history of 0..MaxHistory entries
InitDiff ==
    /\ \/ call = DiffCall(<< <<"r", <<>> >> >>)
       \/ \E k \in 0..MaxHistory : \E ids \in [1..k -> ReportCommitIds] :
             \E bl \in [1..k -> ReportBenchLists] :
                call = DiffCall(<< <<"s", ReportHistory(ids, bl)>> >>)
    /\ ret = NotCalled
    /\ data = NoData
    /\ rendered = NotRendered
    /\ charts = <<>>
    /\ checkboxes = <<>>

NextDiff == RunDiffReport

SpecDiff == InitDiff /\ [][NextDiff]_vars

(***************************************************************************)
(* The plain report (report_gen_nodiff.ts)                                 *)
(***************************************************************************)
MaxRows == 2

\* keys.map((key) => row[key]).join("::")
groupKeyOf(row, keys) == Join([i \in 1..Len(keys) |-> JoinText(Field(row, keys[i]))], <<":", ":">>)

\* the loop of groupData from data[i] on
RECURSIVE groupDataFrom(_, _, _, _)
groupDataFrom(rows, keys, i, groups) ==
    IF i > Len(rows) THEN groups
    ELSE LET add(groupKey) ==
                 ObjSet(groups, groupKey,
                        Append(IF ObjHas(groups, groupKey) THEN ObjGet(groups, groupKey) ELSE <<>>,
                               rows[i]))
         IN groupDataFrom(rows, keys, i + 1, add(groupKeyOf(rows[i], keys)))

groupData(rows, keys) == groupDataFrom(rows, keys, 1, <<>>)

\* the report, group by group: the properties of the heading, made from the
\* first row, and the cells of the rows; the table header and the Markdown
\* punctuation are left out
generateMarkdownReport(groups, schema, groupByKeys) ==
    LET orderedSchema == <<"name">> \o SelectSeq(schema, LAMBDA col : col # "name") IN
    [g \in 1..Len(groups) |->
        [groupHeaderText |-> [k \in 1..Len(groupByKeys) |->
                                <<groupByKeys[k], TemplateText(Field(groups[g][2][1], groupByKeys[k]))>>],
         rows |-> [r \in 1..Len(groups[g][2]) |->
                     [c \in 1..Len(orderedSchema) |->
                         JoinText(NullishOr(Field(groups[g][2][r], orderedSchema[c]),
                                            Str(notAvailable)))]]]]

\* what main prints for the rows read from stdin, with the groups it made
reportGenNoDiff(schemaKeys, groupByKeys, jsonInput) ==
    LET print(groupedData) ==
            [groups |-> groupedData,
             report |-> generateMarkdownReport(groupedData,
                                               schemaKeys \o <<"value", "range", "unit">>,
                                               groupByKeys)]
    IN print(groupData(jsonInput, groupByKeys))

ReportRow(name, os, api) == [name |-> Str(name), os |-> Str(os), api |-> Str(api)]

\* rows whose os and api hold the two delimiters, the empty string, or are missing
ReportRows ==
    { ReportRow(<<"n", "1">>, <<"a", "|", "b">>, <<"c">>),
      ReportRow(<<"n", "2">>, <<"a">>, <<"b", "|", "c">>),
      ReportRow(<<"n", "3">>, <<"a", ":", ":", "b">>, <<"c">>),
      ReportRow(<<"n", "4">>, <<"a">>, <<"b", ":", ":", "c">>),
      ReportRow(<<"n", "5">>, <<"a">>, <<"c">>),
      ReportRow(<<"n", "6">>, <<"c">>, <<"a">>),
      ReportRow(<<"n", "7">>, <<"a">>, <<>>),
      [name |-> Str(<<"n", "8">>), os |-> Str(<<"a">>)] }

GroupByLists == { <<"os", "api">>, <<"api">>, <<>> }

GroupCalls(maxRows) ==
    [fn : {"report_gen_nodiff", "groupResults"}, groupByKeys : GroupByLists,
     rows : SeqsUpTo(ReportRows, maxRows)]

\* one run of report_gen_nodiff.ts: "".split(",") is [""], a list of one key
RunNoDiffReport ==
    /\ call.fn = "report_gen_nodiff"
    /\ ret.pc = "start"
    /\ ret' = [pc |-> "done"] @@
               reportGenNoDiff(<<"name", "os", "api">>,
                               IF call.groupByKeys = <<>> THEN <<"">> ELSE call.groupByKeys,
                               call.rows)
    /\ UNCHANGED <<call, data, rendered, charts, checkboxes>>

\* groupResults and generateMarkdown of the diff report applied to results
CallGroupResults ==
    /\ call.fn = "groupResults"
    /\ ret.pc = "start"
    /\ LET results == [i \in 1..Len(call.rows) |->
                          [baselineValue |-> Undefined, currentValue |-> Undefined,
                           status |-> new] @@ call.rows[i]]
           print(groupedResults) ==
               [pc |-> "done",
                groups |-> groupedResults,
                report |-> generateMarkdown([bigger_is_better |-> FALSE], groupedResults,
                                            <<"name", "os", "api">>, call.groupByKeys)]
       IN ret' = print(groupResults(results, call.groupByKeys))
    /\ UNCHANGED <<call, data, rendered, charts, checkboxes>>

\* old and new values for calculateImprovement
ImprovementValues == {0, 1, 2, 3}
ImprovementCalls ==
    [fn : {"calculateImprovement"}, oldValue : ImprovementValues, newValue : ImprovementValues,
     biggerIsBetter : BOOLEAN]

CallCalculateImprovement ==
    /\ call.fn = "calculateImprovement"
    /\ ret.pc = "start"
    /\ ret' = [pc |-> "done",
               result |-> calculateImprovement(call.oldValue, call.newValue, call.biggerIsBetter)]
    /\ UNCHANGED <<call, data, rendered, charts, checkboxes>>

InitReport ==
    /\ call \in (GroupCalls(MaxRows) \cup ImprovementCalls)
    /\ ret = NotCalled
    /\ data = NoData
    /\ rendered = NotRendered
    /\ charts = <<>>
    /\ checkboxes = <<>>
NextReport == RunNoDiffReport \/ CallGroupResults \/ CallCalculateImprovement
SpecReport == InitReport /\ [][NextReport]_vars

(***************************************************************************)
(* Inputs of the pure functions                                            *)
(***************************************************************************)
MaxSchemaLen == 2
MaxTraces == 2
MaxPoints == 1

\* bench items over the fields os and keySize, each present or not; keySize
\* comes as a number, as a string, or as null
OsValues == {Str(linux), Str(macos), Str(<<"-">>)}
KeySizeValues == {Num(512), Str(<<"5", "1", "2">>), Num(1024), Null}

BenchItems ==
    {[s \in {} |-> Null]}
    \cup {[os |-> o] : o \in OsValues}
    \cup {[keySize |-> k] : k \in KeySizeValues}
    \cup {[os |-> o, keySize |-> k] : o \in OsValues, k \in KeySizeValues}

\* schemas may name a field no bench item has ("api") and may repeat a field
SchemaFields == {"os", "keySize", "api"}

KeyCalls(maxSchemaLen) ==
    [fn : {"buildKey"}, schema : SeqsUpTo(SchemaFields, maxSchemaLen),
     benchItems : BenchItems \X BenchItems]

\* values around each threshold of adjustDataAndUnit
NsValues == {500, 1000, 1001, 1000000, 1000001, 1000000000, 1200000000}
TraceInputs(maxPoints) == {[dataNs |-> d] : d \in SeqsUpTo(NsValues, maxPoints) \ {<<>>}}
AdjustCalls(maxTraces, maxPoints) ==
    [fn : {"adjustDataAndUnit"}, traces : SeqsUpTo(TraceInputs(maxPoints), maxTraces) \ {<<>>}]

Units == {<<"n", "s">>, <<"u", "s">>, <<"U+03BC", "s">>, <<"U+00B5", "s">>, <<"m", "s">>,
          <<"s">>, <<"m">>, <<"m", "i", "n">>, <<"h">>, <<"k", "s">>, <<"N", "s">>,
          <<" ", "n", "s">>, <<>>}
NanosecondCalls == [fn : {"getNanoseconds"}, value : 0..2, unit : Units]

(***************************************************************************)
(* The pure functions applied to an input                                  *)
(***************************************************************************)
PageIdle ==
    /\ data = NoData
    /\ rendered = NotRendered
    /\ charts = <<>>
    /\ checkboxes = <<>>

CallBuildKey ==
    /\ call.fn = "buildKey"
    /\ ret.pc = "start"
    /\ ret' = [pc |-> "built",
               keys |-> [i \in 1..2 |-> buildKey(call.benchItems[i], call.schema)]]
    /\ UNCHANGED <<call, data, rendered, charts, checkboxes>>

\* the keys that were built are parsed back (a call that threw built no key)
CallParseKey ==
    /\ call.fn = "buildKey"
    /\ ret.pc = "built"
    /\ \A i \in 1..2 : ~ret.keys[i].threw
    /\ ret' = [pc |-> "parsed",
               keys |-> ret.keys,
               parsed |-> [i \in 1..2 |-> parseKey(ret.keys[i].v, call.schema)]]
    /\ UNCHANGED <<call, data, rendered, charts, checkboxes>>

CallGetNanoseconds ==
    /\ call.fn = "getNanoseconds"
    /\ ret.pc = "start"
    /\ ret' = [pc |-> "done", result |-> getNanoseconds(call.value, call.unit)]
    /\ UNCHANGED <<call, data, rendered, charts, checkboxes>>

CallAdjustDataAndUnit ==
    /\ call.fn = "adjustDataAndUnit"
    /\ ret.pc = "start"
    /\ ret' = [pc |-> "done", result |-> adjustDataAndUnit(call.traces)]
    /\ UNCHANGED <<call, data, rendered, charts, checkboxes>>

InitKey == call \in KeyCalls(MaxSchemaLen) /\ ret = NotCalled /\ PageIdle
NextKey == CallBuildKey \/ CallParseKey
SpecKey == InitKey /\ [][NextKey]_vars

InitUnit ==
    /\ call \in (NanosecondCalls \cup AdjustCalls(MaxTraces, MaxPoints))
    /\ ret = NotCalled /\ PageIdle
NextUnit == CallGetNanoseconds \/ CallAdjustDataAndUnit
SpecUnit == InitUnit /\ [][NextUnit]_vars

(***************************************************************************)
(* The checkbox filter: claims                                             *)
(***************************************************************************)
Matches(chart, box) == GetAttribute(chart, box.key) = Str(box.value)

\* the unchecked checkboxes whose (key, value) matches the chart
UncheckedMatching(chart) ==
    {i \in 1..Len(checkboxes) : ~checkboxes[i].checked /\ Matches(chart, checkboxes[i])}

\* the hidden-by attribute read as a number (no attribute reads as 0)
HiddenByNumber(chart) ==
    IF "hidden-by" \in DOMAIN chart.attrs THEN StringToNumber(chart.attrs["hidden-by"]) ELSE 0

\* C1: whenever every checkbox matching a chart is checked (again), the chart is
\* visible and its hidden-by counter is 0.
C1_VisibleWhenAllRechecked ==
    \A c \in 1..Len(charts) :
        UncheckedMatching(charts[c]) = {}
            => charts[c].display = "" /\ HiddenByNumber(charts[c]) = 0

\* C2: the stored hidden-by counter of every chart is the number of unchecked
\* checkboxes that match the chart.
C2_CounterIsNumberOfUnchecked ==
    \A c \in 1..Len(charts) :
        HiddenByNumber(charts[c]) = Cardinality(UncheckedMatching(charts[c]))

\* C3: a chart is hidden (display none) if and only if its hidden-by counter,
\* read as a number, is greater than 0.
C3_HiddenIffCounterPositive ==
    \A c \in 1..Len(charts) :
        (charts[c].display = "none") <=> (HiddenByNumber(charts[c]) > 0)

\* one chart hidden by two boxes, another shown again after having been hidden
C3_Witness ==
    \E c, d \in 1..Len(charts) :
        /\ Cardinality(UncheckedMatching(charts[c])) = 2
        /\ charts[c].display = "none"
        /\ HiddenByNumber(charts[c]) > 0
        /\ "hidden-by" \in DOMAIN charts[d].attrs
        /\ charts[d].display = ""
        /\ HiddenByNumber(charts[d]) = 0

\* C4: a chart is never visible while a checkbox matching it is unchecked.
C4_HiddenWhileAnyUnchecked ==
    \A c \in 1..Len(charts) :
        UncheckedMatching(charts[c]) # {} => charts[c].display = "none"

\* unchecked os and keySize, re-checked os: the chart matching (os, linux) and
\* (keySize, 512) is still hidden, by keySize alone
C4_Witness ==
    \E c \in 1..Len(charts) :
        /\ GetAttribute(charts[c], "os") = Str(linux)
        /\ GetAttribute(charts[c], "keySize") = Str(<<"5", "1", "2">>)
        /\ \E i \in UncheckedMatching(charts[c]) :
              /\ UncheckedMatching(charts[c]) = {i}
              /\ checkboxes[i].key = "keySize"
        /\ GetAttribute(charts[c], "hidden-by") = Str(<<"1", "0">>)
        /\ charts[c].display = "none"

(***************************************************************************)
(* Rendering: claims                                                       *)
(***************************************************************************)
RenderedSuite == rendered.benchSet
BenchesOf(history) == LET flat == FlattenCommits(history) IN {flat[i].bench : i \in 1..Len(flat)}

\* the group of a bench: the texts of its groupBy fields, "-" for an absent one
GroupOf(bench, groupBy) ==
    [i \in 1..Len(groupBy) |->
        IF groupBy[i] \in DOMAIN bench THEN ToStringOf(bench[groupBy[i]]).v ELSE <<"-">>]

HasUnknownUnit(bench) == NanosecondsOf(bench).threw

ChartOfGroup(chart, group, groupBy) ==
    \A i \in 1..Len(groupBy) : GetAttribute(chart, groupBy[i]) = Str(group[i])

\* C10: after renderAllCharts, every group none of whose observations has an
\* unrecognised unit has its chart in the page, whatever the units in the
\* other groups.
C10_OtherGroupsStillRendered ==
    (/\ rendered # NotRendered
     /\ IsIterable(retrieveSchema(data, RenderedSuite))
     /\ IsIterable(retrieveGroupBy(data, RenderedSuite))) =>
        LET benches == BenchesOf(ObjGet(data.entries, RenderedSuite))
            groupBy == retrieveGroupBy(data, RenderedSuite).a
            badGroups == {GroupOf(b, groupBy) : b \in {x \in benches : HasUnknownUnit(x)}}
        IN \A b \in benches :
              GroupOf(b, groupBy) \notin badGroups
                  => \E c \in 1..Len(charts) : ChartOfGroup(charts[c], GroupOf(b, groupBy), groupBy)

(***************************************************************************)
(* Key codec: claims                                                       *)
(***************************************************************************)
Built == call.fn = "buildKey" /\ ret.pc \in {"built", "parsed"}
BothBuilt == Built /\ \A i \in 1..2 : ~ret.keys[i].threw
SchemaFieldsOf(schema) == {schema[i] : i \in 1..Len(schema)}

\* the value a record has for a field, an absent field read as the sentinel string
ValueOrSentinel(r, s) == IF s \in DOMAIN r THEN r[s] ELSE Str(<<"-">>)

\* the text of the value a record has for a field
TextOrSentinel(r, s) == IF s \in DOMAIN r THEN ToStringOf(r[s]).v ELSE <<"-">>

C7_SentinelDistinctFromRealValues ==
    BothBuilt =>
        \A s \in SchemaFieldsOf(call.schema) :
            (s \notin DOMAIN call.benchItems[1] /\ s \in DOMAIN call.benchItems[2])
                => ret.keys[1] # ret.keys[2]

(***************************************************************************)
(* Unit normaliser: claims                                                 *)
(***************************************************************************)
AllNs(traces) ==
    UNION {{traces[i].dataNs[j] : j \in 1..Len(traces[i].dataNs)} : i \in 1..Len(traces)}

MaxOf(S) == CHOOSE m \in S : \A x \in S : x <= m

ExpectedDivisor(M) ==
    IF M > 1000000000 THEN 1000000000
    ELSE IF M > 1000000 THEN 1000000
    ELSE IF M > 1000 THEN 1000
    ELSE 1

ExpectedUnit(M) ==
    IF M > 1000000000 THEN "s/iter"
    ELSE IF M > 1000000 THEN "ms/iter"
    ELSE IF M > 1000 THEN "U+03BC s/iter"
    ELSE "ns/iter"

\* C8: the unit and the divisor follow from the maximum M over all traces of the
\* chart by strict comparison with 1e9, 1e6 and 1e3, and every y of every trace
\* is its nanosecond value over that one divisor.
C8_OneUnitFromMaximum ==
    (call.fn = "adjustDataAndUnit" /\ ret.pc = "done") =>
        LET M == MaxOf(AllNs(call.traces)) IN
        /\ ret.result.unit = ExpectedUnit(M)
        /\ Len(ret.result.traces) = Len(call.traces)
        /\ \A i \in 1..Len(call.traces) :
              /\ ret.result.traces[i].dataNs = call.traces[i].dataNs
              /\ Len(ret.result.traces[i].y) = Len(call.traces[i].dataNs)
              /\ \A j \in 1..Len(call.traces[i].dataNs) :
                    ret.result.traces[i].y[j]
                        = [num |-> call.traces[i].dataNs[j], den |-> ExpectedDivisor(M)]

\* the maximum sits on a threshold, in the second trace, and the smaller unit is kept
C8_Witness ==
    /\ call.fn = "adjustDataAndUnit" /\ ret.pc = "done"
    /\ Len(call.traces) = 2
    /\ call.traces[1].dataNs[1] = 500
    /\ call.traces[2].dataNs[1] = 1000000
    /\ ret.result.unit = "U+03BC s/iter"
    /\ ret.result.traces[1].y[1] = [num |-> 500, den |-> 1000]

RecognisedFactor(c) ==
    CASE c = "n" -> 1
      [] c \in {"u", "U+00B5", "U+03BC"} -> 1000
      [] c = "m" -> 1000000
      [] c = "s" -> 1000000000
      [] OTHER -> 0

\* C9: the result is the value times the factor named by the first character of
\* the unit, and a unit whose first character names no factor makes the call
\* throw instead of returning.
C9_FactorByFirstCharOrError ==
    (call.fn = "getNanoseconds" /\ ret.pc = "done") =>
        LET f == IF call.unit = <<>> THEN 0 ELSE RecognisedFactor(call.unit[1]) IN
        IF f = 0 THEN ret.result.threw
        ELSE ret.result = Return(call.value * f)

C9_Witness ==
    /\ call.fn = "getNanoseconds" /\ ret.pc = "done"
    /\ call.unit = <<"k", "s">>
    /\ call.value = 2
    /\ ret.result.threw

(***************************************************************************)
(* Trace builder and grouping: claims                                      *)
(***************************************************************************)
\* the traces of the page, chart by chart
RenderedTraces == Concat([c \in 1..Len(charts) |-> charts[c].traces])

\* the observations of the rendered suite in the order of its history
InputObservations == FlattenCommits(ObjGet(data.entries, RenderedSuite))

KeyOfObservation(o) == buildKey(o.bench, retrieveSchema(data, RenderedSuite).a)

ObservationsWithKey(k) == SelectSeq(InputObservations, LAMBDA o : KeyOfObservation(o) = k)

RenderedSchema == retrieveSchema(data, RenderedSuite).a
RenderedGroupBy == retrieveGroupBy(data, RenderedSuite).a

\* every field of groupBy is a field of the schema
GroupByWithinSchema ==
    \A g \in 1..Len(RenderedGroupBy) : \E i \in 1..Len(RenderedSchema) :
        RenderedSchema[i] = RenderedGroupBy[g]

\* the traces separateAllTraces hands to the grouping
BuiltTraces == separateAllTraces(ObjGet(data.entries, RenderedSuite), RenderedSchema).v

\* the values of a trace for the fields of groupBy
GroupValues(trace) ==
    [g \in 1..Len(RenderedGroupBy) |-> ObjGet(trace.metadata, RenderedGroupBy[g])]

\* C12: after a render that went through, with groupBy within the schema, each
\* trace is in exactly one chart, no chart is without a trace, there are as
\* many charts as combinations of groupBy values among the traces, and each
\* trace of a chart has, for every groupBy field, the value the chart carries
\* for it.
C12_GroupsPartitionTraces ==
    (rendered.shown /\ GroupByWithinSchema) =>
        /\ Len(RenderedTraces) = Len(BuiltTraces)
        /\ \A t \in 1..Len(BuiltTraces) :
              Cardinality({p \in {<<c, i>> : c \in 1..Len(charts), i \in 1..Len(BuiltTraces)} :
                              /\ p[2] <= Len(charts[p[1]].traces)
                              /\ charts[p[1]].traces[p[2]].dataset = BuiltTraces[t].dataset}) = 1
        /\ \A c \in 1..Len(charts) : charts[c].traces # <<>>
        /\ Len(charts) = Cardinality({GroupValues(BuiltTraces[t]) : t \in 1..Len(BuiltTraces)})
        /\ \A c \in 1..Len(charts) : \A i \in 1..Len(charts[c].traces) :
              \A g \in 1..Len(RenderedGroupBy) :
                  GetAttribute(charts[c], RenderedGroupBy[g])
                      = ObjGet(charts[c].traces[i].metadata, RenderedGroupBy[g])

\* groupBy [os] and two os values among the traces: two charts
C12_Witness ==
    /\ rendered.shown
    /\ RenderedGroupBy = <<"os">>
    /\ Len(charts) = 2
    /\ GetAttribute(charts[1], "os") = Str(linux)
    /\ GetAttribute(charts[2], "os") = Str(macos)

(***************************************************************************)
(* Legend names and tooltips: claims                                       *)
(***************************************************************************)
\* the fields of the schema that go into a legend name and that the bench has
LegendFields(bench) ==
    SelectSeq(RenderedSchema,
              LAMBDA f : /\ ~\E g \in 1..Len(RenderedGroupBy) : RenderedGroupBy[g] = f
                         /\ f # "unit"
                         /\ f \in DOMAIN bench)

\* C13: the legend name of a trace is made of its values for the schema fields
\* that are neither in groupBy nor 'unit', in schema order, a field its
\* benches lack contributing nothing.
C13_LegendOmitsMissingFields ==
    rendered.shown =>
        \A t \in 1..Len(RenderedTraces) :
            LET bench == RenderedTraces[t].dataset[1].bench
                fields == LegendFields(bench)
            IN RenderedTraces[t].name
                   = Join([i \in 1..Len(fields) |-> ToStringOf(bench[fields[i]]).v], <<" ">>)

\* part occurs in text
Contains(text, part) ==
    \E k \in 0..(Len(text) - Len(part)) : SubSeq(text, k + 1, k + Len(part)) = part

\* what follows the heading in the tooltip of an observation: its value, its
\* unit, its range when it has one, and the id, message and url of its commit
TooltipDetails(observation) ==
    ttValue \o TemplateText(observation.bench.value) \o <<" ">> \o observation.bench.unit.s
        \o <<" ">> \o (IF "range" \in DOMAIN observation.bench
                         THEN observation.bench.range.s ELSE <<>>)
        \o ttCommitId \o observation.commit.id
        \o ttCommitName \o observation.commit.message
        \o ttCommitUrl \o observation.commit.url

\* C14: the tooltip text of every observation is a heading in bold that
\* contains the name of the observation's bench, followed by the value, the
\* unit, the range when present, and the commit id, message and url.
C14_TooltipNamesBenchAndCommit ==
    rendered.shown =>
        \A t \in 1..Len(RenderedTraces) : \A i \in 1..Len(RenderedTraces[t].dataset) :
            LET text == RenderedTraces[t].text[i]
                observation == RenderedTraces[t].dataset[i]
                details == TooltipDetails(observation)
                heading == SubSeq(text, Len(ttBold) + 1, Len(text) - Len(details))
            IN /\ Len(text) >= Len(ttBold) + Len(details)
               /\ SubSeq(text, 1, Len(ttBold)) = ttBold
               /\ SubSeq(text, Len(text) - Len(details) + 1, Len(text)) = details
               /\ Contains(heading, observation.bench.name.s)

(***************************************************************************)
(* Default schema and groupBy: claims                                      *)
(***************************************************************************)
\* a list is stored for the rendered suite
ListStored(lists) ==
    ~NoneOrInvalid(lists, RenderedSuite) /\ IsIterable(lists.o[RenderedSuite])

\* the stored list, or the default when none is stored
ListOrDefault(lists, default) ==
    IF ListStored(lists) THEN lists.o[RenderedSuite].a ELSE default

\* the document with the lists of the rendered suite written out
WithListsWrittenOut ==
    [data EXCEPT !.schema = Obj(RenderedSuite :> Arr(ListOrDefault(data.schema, defaultSchema))),
                 !.groupBy = Obj(RenderedSuite :> Arr(ListOrDefault(data.groupBy, defaultGroupBy)))]

\* C15: when every unit of the suite is known, the page after renderAllCharts
\* is the one made with the stored schema and groupBy where a list is stored
\* and with the default list where none is, and each substitution of a
\* default has written its line to the console.
C15_DefaultsWhenMissingOrInvalid ==
    (/\ rendered # NotRendered
     /\ \A b \in BenchesOf(ObjGet(data.entries, RenderedSuite)) : ~HasUnknownUnit(b)) =>
        LET expected == renderAllCharts(WithListsWrittenOut, RenderedSuite) IN
        /\ ~expected.threw
        /\ rendered.shown
        /\ charts = expected.v.charts
        /\ checkboxes = expected.v.checkboxes
        /\ ~ListStored(data.schema) => \E i \in 1..Len(rendered.errors) : rendered.errors[i] = noSchema
        /\ ~ListStored(data.groupBy) => \E i \in 1..Len(rendered.errors) : rendered.errors[i] = noGroupBy

(***************************************************************************)
(* The data file updater: claims                                           *)
(***************************************************************************)
\* the calls of the log that named the suite
CallsFor(benchName) == SelectSeq(call.log, LAMBDA c : c.benchName = benchName)

\* C16: after any sequence of calls with maxItems null, the suites of the
\* document are the suites that were named, the entries of each suite are the
\* benches added to it in call order, and its groupBy and schema are the lists
\* of the last call that named it.
C16_HistoryIsAppendOnly ==
    call.fn = "addBenchmarkToDataJson" =>
        /\ ObjKeys(data.entries) = {call.log[i].benchName : i \in 1..Len(call.log)}
        /\ \A benchName \in ObjKeys(data.entries) :
              LET calls == CallsFor(benchName) IN
              /\ ObjGet(data.entries, benchName) = [i \in 1..Len(calls) |-> calls[i].bench]
              /\ data.groupBy.o[benchName] = Arr(calls[Len(calls)].groupBy)
              /\ data.schema.o[benchName] = Arr(calls[Len(calls)].schema)
        /\ Len(call.log) > 0 =>
              /\ DOMAIN data.groupBy.o = ObjKeys(data.entries)
              /\ DOMAIN data.schema.o = ObjKeys(data.entries)

\* a bench was added to a suite that had one, after a bench for another suite
C16_Witness ==
    /\ call.fn = "addBenchmarkToDataJson"
    /\ Len(call.log) = 3
    /\ call.log[1].benchName = "s" /\ call.log[2].benchName = "r" /\ call.log[3].benchName = "s"
    /\ Len(ObjGet(data.entries, "s")) = 2
    /\ Len(ObjGet(data.entries, "r")) = 1

(***************************************************************************)
(* The diff report: claims                                                 *)
(***************************************************************************)
DiffDone == call.fn = "report_gen_diff" /\ ret.pc = "done"

SuitePresent == ObjHas(call.data.entries, call.name)
ReportedHistory == IF SuitePresent THEN ObjGet(call.data.entries, call.name) ELSE <<>>
DifferentCommitIds == {ReportedHistory[i].commit.id : i \in 1..Len(ReportedHistory)}

\* the place of the latest entry whose commit id is not that of the last entry
LatestOtherCommit ==
    CHOOSE i \in 1..Len(ReportedHistory) :
        /\ ReportedHistory[i].commit.id # ReportedHistory[Len(ReportedHistory)].commit.id
        /\ \A j \in (i + 1)..Len(ReportedHistory) :
              ReportedHistory[j].commit.id = ReportedHistory[Len(ReportedHistory)].commit.id

\* C17: the diff report prints a notice in place of the comparison exactly when
\* the suite is absent or its history has fewer than two different commit ids;
\* otherwise it compares the commit of the last entry with the commit of the
\* latest entry that has another id.
C17_NoticeIffFewerThanTwoCommits ==
    DiffDone =>
        /\ (ret.out.notice # "none") <=> (~SuitePresent \/ Cardinality(DifferentCommitIds) < 2)
        /\ Cardinality(DifferentCommitIds) >= 2 =>
              /\ ret.out.notice = "none"
              /\ ret.out.currentEntry.commit.id = ReportedHistory[Len(ReportedHistory)].commit.id
              /\ ret.out.baselineEntry.commit.id = ReportedHistory[LatestOtherCommit].commit.id

Compared == DiffDone /\ ret.out.notice = "none"

\* the schema fields that make the composite key
KeyFields == SelectSeq(call.schemaKeys, LAMBDA k : k \notin {"value", "unit", "range"})

KeysOf(benches) == {generateCompositeKey(benches[i], KeyFields) : i \in 1..Len(benches)}

\* the value of the last bench with the key, the one createBenchMap keeps
ValueWithKey(benches, key) ==
    LET last == CHOOSE i \in 1..Len(benches) :
                    /\ generateCompositeKey(benches[i], KeyFields) = key
                    /\ \A j \in (i + 1)..Len(benches) :
                          generateCompositeKey(benches[j], KeyFields) # key
    IN Field(benches[last], "value")

\* C18: the combined results are one per composite key found among the
\* baseline or the current benches; a result is 'changed' when its key is in
\* both, 'new' when it is in the current ones only, 'removed' when it is in the
\* baseline ones only; its two values are those of the benches with its key,
\* undefined on the side that has none.
C18_OneResultPerKeyWithStatus ==
    Compared =>
        LET results == ret.out.combinedResults
            baseline == ret.out.baselineEntry.benches
            current == ret.out.currentEntry.benches
            keyOf(i) == generateCompositeKey(results[i], KeyFields)
        IN /\ {keyOf(i) : i \in 1..Len(results)} = KeysOf(baseline) \cup KeysOf(current)
           /\ \A i, j \in 1..Len(results) : keyOf(i) = keyOf(j) => i = j
           /\ \A i \in 1..Len(results) :
                 /\ results[i].status = changed
                        <=> keyOf(i) \in KeysOf(baseline) \cap KeysOf(current)
                 /\ results[i].status = new
                        <=> keyOf(i) \in KeysOf(current) \ KeysOf(baseline)
                 /\ results[i].status = removed
                        <=> keyOf(i) \in KeysOf(baseline) \ KeysOf(current)
                 /\ results[i].baselineValue =
                        IF keyOf(i) \in KeysOf(baseline)
                        THEN ValueWithKey(baseline, keyOf(i)) ELSE Undefined
                 /\ results[i].currentValue =
                        IF keyOf(i) \in KeysOf(current)
                        THEN ValueWithKey(current, keyOf(i)) ELSE Undefined

\* a comparison with a changed and a removed bench
C18_Witness ==
    /\ Compared
    /\ Len(ret.out.combinedResults) = 2
    /\ ret.out.combinedResults[1].status = changed
    /\ ret.out.combinedResults[1].baselineValue = Num(1200)
    /\ ret.out.combinedResults[1].currentValue = Num(1500)
    /\ ret.out.combinedResults[2].status = removed
    /\ ret.out.combinedResults[2].currentValue = Undefined

(***************************************************************************)
(* The groups of the two reports: claims                                   *)
(***************************************************************************)
Grouped == call.fn \in {"report_gen_nodiff", "groupResults"} /\ ret.pc = "done"

\* C19: in both report generators all rows of a group have the same value for
\* every groupBy key, a missing value being a value of its own, so that rows
\* which differ in a groupBy key are in different groups.
C19_RowsOfAGroupAgreeOnGroupBy ==
    Grouped =>
        \A g \in 1..Len(ret.groups) :
            \A i, j \in 1..Len(ret.groups[g][2]) :
                \A k \in 1..Len(call.groupByKeys) :
                    Field(ret.groups[g][2][i], call.groupByKeys[k])
                        = Field(ret.groups[g][2][j], call.groupByKeys[k])

ObservationsOf(benchSet) ==
    LET flat == FlattenCommits(ObjGet(data.entries, benchSet))
    IN {flat[i] : i \in 1..Len(flat)}

\* the observations a chart plots
PlottedBy(chart) ==
    UNION {{chart.traces[t].dataset[i] : i \in 1..Len(chart.traces[t].dataset)} :
              t \in 1..Len(chart.traces)}

\* C21: a step that renders a suite, the first render of the page or one the
\* dropdown starts, whatever was hidden or unchecked before it, leaves a
\* document in which every chart is displayed and has no hidden-by attribute,
\* every checkbox is checked, every chart plots observations of the rendered
\* suite and of no other, every observation of a suite that was rendered
\* through is plotted, and every checkbox carries the key and value of a chart
\* of the document.
C21_RenderStartsClean ==
    [][rendered'.benchSet # rendered.benchSet =>
          /\ \A c \in 1..Len(charts') :
                /\ charts'[c].display = ""
                /\ GetAttribute(charts'[c], "hidden-by") = Null
                /\ PlottedBy(charts'[c]) # {}
                /\ PlottedBy(charts'[c]) \subseteq ObservationsOf(rendered'.benchSet)
          /\ rendered'.shown =>
                ObservationsOf(rendered'.benchSet)
                    \subseteq UNION {PlottedBy(charts'[c]) : c \in 1..Len(charts')}
          /\ \A b \in 1..Len(checkboxes') :
                /\ checkboxes'[b].checked
                /\ \E c \in 1..Len(charts') :
                      GetAttribute(charts'[c], checkboxes'[b].key) = Str(checkboxes'[b].value)
      ]_vars

\* a suite with two charts has just been rendered through, in place of a
\* document that had a hidden chart and an unchecked checkbox
C21_Witness ==
    /\ rendered.shown
    /\ rendered.removed.hidden > 0
    /\ rendered.removed.unchecked > 0
    /\ Len(charts) > 1
    /\ \A b \in 1..Len(checkboxes) : checkboxes[b].checked

(***************************************************************************)
(* C22: the units of a comparison                                          *)
(***************************************************************************)
\* the last bench with the key, the one createBenchMap keeps
BenchWithKey(benches, key) ==
    benches[CHOOSE i \in 1..Len(benches) :
                /\ generateCompositeKey(benches[i], KeyFields) = key
                /\ \A j \in (i + 1)..Len(benches) :
                      generateCompositeKey(benches[j], KeyFields) # key]

\* the results of the report with the rows printed for them
ReportedRows ==
    UNION {{[res |-> ret.out.groupedResults[g][2][r], row |-> ret.out.md[g].rows[r]] :
               r \in 1..Len(ret.out.groupedResults[g][2])} :
              g \in 1..Len(ret.out.groupedResults)}

\* a result is 'changed' only when the baseline bench and the current bench
\* with its key have the same unit
ChangedHaveSameUnit ==
    \A rr \in ReportedRows :
        LET key == generateCompositeKey(rr.res, KeyFields) IN
        rr.res.status = changed =>
            Field(BenchWithKey(ret.out.baselineEntry.benches, key), "unit")
                = Field(BenchWithKey(ret.out.currentEntry.benches, key), "unit")

\* the unit printed after a baseline value is that of the baseline bench
BaselineHasOwnUnit ==
    \A rr \in ReportedRows :
        LET key == generateCompositeKey(rr.res, KeyFields) IN
        (key \in KeysOf(ret.out.baselineEntry.benches) /\ Truthy(rr.res.baselineValue)) =>
            rr.row.baseline =
                ToLocaleString(rr.res.baselineValue.n) \o <<" ">>
                    \o BeforeSlash(BenchWithKey(ret.out.baselineEntry.benches, key).unit.s)

\* C22: in a diff report a baseline bench and a current bench are paired as
\* 'changed', and a Change percentage computed from their values, only when
\* their units are equal, and the unit printed next to a baseline value is the
\* unit of the baseline bench.
C22_ChangeFromSameUnit == Compared => (ChangedHaveSameUnit /\ BaselineHasOwnUnit)

====
